---- MODULE Spec2Model ----
(***************************************************************************)
(* Model of models/base.py: the Base class, its process-wide registry      *)
(* DATA, the per-class backing file ".db_<class>.json", and the timestamp  *)
(* conversions done with TIMESTAMP_FORMAT = "%Y-%m-%dT%H:%M:%S".           *)
(*                                                                         *)
(* Strings that the code parses or formats (timestamps) are sequences of   *)
(* one-character strings; ids and other field values are atomic strings.   *)
(* A Python dict is a function whose DOMAIN is its key set (iteration      *)
(* order is not modelled: the results of search/all are compared as sets). *)
(***************************************************************************)
EXTENDS Integers, Sequences, FiniteSets, TLC

(***************************************************************************)
(* Bounds of the model.                                                    *)
(***************************************************************************)
\* the number of distinct ids the caller supplies
NumIds == 1

\* the number of distinct values uuid4() has to give
NumUuids == 2

(***************************************************************************)
(* Values.                                                                 *)
(***************************************************************************)
None == "None"

\* names of the concrete classes; each inherits every method of Base unchanged
ClassSeq == <<"Base", "User">>

Types == {ClassSeq[i] : i \in DOMAIN ClassSeq}

Digits == <<"0", "1", "2", "3", "4", "5", "6", "7", "8", "9">>

IsDigit(c) == \E i \in 1..10 : Digits[i] = c

DigitVal(c) == (CHOOSE i \in 1..10 : Digits[i] = c) - 1

DigitChar(n) == Digits[n + 1]

(***************************************************************************)
(* datetime: a record of the fields of a Python datetime.                  *)
(***************************************************************************)
DateTime(y, mo, d, h, mi, s, us) ==
    [year |-> y, month |-> mo, day |-> d, hour |-> h, minute |-> mi,
     second |-> s, microsecond |-> us]

IsLeap(y) == (y % 4 = 0) /\ ((y % 100 # 0) \/ (y % 400 = 0))

DaysInMonth(y, mo) ==
    IF mo = 2 THEN (IF IsLeap(y) THEN 29 ELSE 28)
    ELSE IF mo \in {4, 6, 9, 11} THEN 30 ELSE 31

(***************************************************************************)
(* value.strftime(TIMESTAMP_FORMAT).  Every directive but %Y is zero       *)
(* padded to two digits.  The width of %Y for a year below 1000 is decided *)
(* by the platform's C library: padYear = TRUE pads to four digits,        *)
(* padYear = FALSE (glibc) writes the year without leading zeros.  The     *)
(* microsecond is not rendered.                                            *)
(***************************************************************************)
Pad2(n) == <<DigitChar(n \div 10), DigitChar(n % 10)>>

Pad4(n) == <<DigitChar(n \div 1000), DigitChar((n \div 100) % 10),
             DigitChar((n \div 10) % 10), DigitChar(n % 10)>>

RECURSIVE Decimal(_)
Decimal(n) == IF n < 10 THEN <<DigitChar(n)>>
              ELSE Decimal(n \div 10) \o <<DigitChar(n % 10)>>

strftime(dt, pad) ==
    (IF pad THEN Pad4(dt.year) ELSE Decimal(dt.year))
    \o <<"-">> \o Pad2(dt.month) \o <<"-">> \o Pad2(dt.day) \o <<"T">>
    \o Pad2(dt.hour) \o <<":">> \o Pad2(dt.minute) \o <<":">> \o Pad2(dt.second)

(***************************************************************************)
(* datetime.strptime(s, TIMESTAMP_FORMAT).  The format compiles to the     *)
(* regular expression                                                      *)
(*   (\d\d\d\d)-(1[0-2]|0[1-9]|[1-9])-(3[01]|[12]\d|0[1-9]|[1-9]| [1-9])   *)
(*   T(2[0-3]|[0-1]\d|\d):([0-5]\d|\d):(6[0-1]|[0-5]\d|\d)                 *)
(* matched at the start of s, ignoring case; text left after the match, or *)
(* a field value the datetime constructor rejects, is a ValueError.  Every *)
(* field is followed by a non-digit (or by the end), so the first          *)
(* alternative that matches a field is the only one that can lead to a     *)
(* match.                                                                  *)
(***************************************************************************)
NoMatch == [len |-> 0, val |-> 0]

CharAt(s, p) == IF p \in 1..Len(s) THEN s[p] ELSE ""

Num2(s, p) == 10 * DigitVal(s[p]) + DigitVal(s[p + 1])

TwoDigits(s, p) == IsDigit(CharAt(s, p)) /\ IsDigit(CharAt(s, p + 1))

\* one directive at position p: the two-character alternatives accept the
\* values in two, the one-character alternative the values in one
Field(s, p, two, one) ==
    IF TwoDigits(s, p) /\ Num2(s, p) \in two
    THEN [len |-> 2, val |-> Num2(s, p)]
    ELSE IF IsDigit(CharAt(s, p)) /\ DigitVal(s[p]) \in one
    THEN [len |-> 1, val |-> DigitVal(s[p])]
    ELSE NoMatch

\* %d also accepts a space followed by one of 1..9
DayField(s, p) ==
    IF CharAt(s, p) = " " /\ IsDigit(CharAt(s, p + 1))
       /\ DigitVal(CharAt(s, p + 1)) \in 1..9
    THEN [len |-> 2, val |-> DigitVal(s[p + 1])]
    ELSE Field(s, p, 1..31, 1..9)

YearField(s, p) ==
    IF TwoDigits(s, p) /\ TwoDigits(s, p + 2)
    THEN [len |-> 4, val |-> 100 * Num2(s, p) + Num2(s, p + 2)]
    ELSE NoMatch

ValueError == [ok |-> FALSE, exc |-> "ValueError"]

Parsed(dt) == [ok |-> TRUE, val |-> dt]

\* the end of the parse: Y .. S are the matches of the six directives and q
\* is the position at which S starts
Matched(s, Y, Mo, D, H, Mi, S, q) ==
    IF /\ S.len > 0
       /\ q + S.len = Len(s) + 1               \* no unconverted data
       /\ Y.val >= 1                           \* the checks of datetime(...)
       /\ D.val <= DaysInMonth(Y.val, Mo.val)
       /\ S.val <= 59
    THEN Parsed(DateTime(Y.val, Mo.val, D.val, H.val, Mi.val, S.val, 0))
    ELSE ValueError

\* each step takes the directive matched at q, matches the separator after
\* it and then the next directive
AfterMinute(s, Y, Mo, D, H, Mi, q) ==
    IF Mi.len > 0 /\ CharAt(s, q + Mi.len) = ":"
    THEN Matched(s, Y, Mo, D, H, Mi, Field(s, q + Mi.len + 1, 0..61, 0..9), q + Mi.len + 1)
    ELSE ValueError

AfterHour(s, Y, Mo, D, H, q) ==
    IF H.len > 0 /\ CharAt(s, q + H.len) = ":"
    THEN AfterMinute(s, Y, Mo, D, H, Field(s, q + H.len + 1, 0..59, 0..9), q + H.len + 1)
    ELSE ValueError

AfterDay(s, Y, Mo, D, q) ==
    IF D.len > 0 /\ CharAt(s, q + D.len) \in {"T", "t"}        \* re.IGNORECASE
    THEN AfterHour(s, Y, Mo, D, Field(s, q + D.len + 1, 0..23, 0..9), q + D.len + 1)
    ELSE ValueError

AfterMonth(s, Y, Mo, q) ==
    IF Mo.len > 0 /\ CharAt(s, q + Mo.len) = "-"
    THEN AfterDay(s, Y, Mo, DayField(s, q + Mo.len + 1), q + Mo.len + 1)
    ELSE ValueError

AfterYear(s, Y, q) ==
    IF Y.len > 0 /\ CharAt(s, q + Y.len) = "-"
    THEN AfterMonth(s, Y, Field(s, q + Y.len + 1, 1..12, 1..9), q + Y.len + 1)
    ELSE ValueError

strptime(s) == AfterYear(s, YearField(s, 1), 1)

(***************************************************************************)
(* Inputs.  Ids are the ids a caller supplies, UuidPool the values         *)
(* str(uuid.uuid4()) can return, Nows the instants datetime.utcnow() can   *)
(* return (with a microsecond part, which the format drops).               *)
(***************************************************************************)
IdSeq == <<"a", "b", "c">>

Ids == {IdSeq[i] : i \in 1..NumIds}

UuidPool == {"u1"}

\* the values str(uuid.uuid4()) returns where the generator is followed call
\* by call: it returns no value twice
UuidSeq == <<"u1", "u2", "u3">>

Uuids == {UuidSeq[i] : i \in 1..NumUuids}

\* every key a bucket or a file can have, in a fixed order
KeySeq == SubSeq(UuidSeq, 1, NumUuids) \o SubSeq(IdSeq, 1, NumIds)

Nows == {DateTime(2024, 1, 1, 0, 0, 0, 500000)}

\* the variables in which the caller holds instances
CallerVars == <<"e">>

\* a timestamp of the year 999, valid in the fixed format
OldStamp == <<"0", "9", "9", "9", "-", "0", "1", "-", "0", "1", "T",
              "0", "0", ":", "0", "0", ":", "0", "0">>

\* fields whose values are datetime objects (isinstance(value, datetime))
StampFields == {"created_at", "updated_at"}

\* field names for which key.startswith('_') is true
PrivateFields == {"_password"}

\* a string that is not a timestamp in the fixed format
BadStamp == <<"2", "0", "2", "4">>

\* the values a caller gives to the field name
Names == {"x", "y"}

\* the heap: references to the live instances
Refs == 1..(Len(CallerVars) + Len(KeySeq) * Len(ClassSeq))

NoRef == 0

NoObj == [cls |-> None, d |-> << >>]

\* the reference a bucket holds under the key k, NoRef if it holds none
getattr_ref(bucket, k) == IF k \in DOMAIN bucket THEN bucket[k] ELSE NoRef

VARIABLES
    DATA,      \* the registry: class name -> (key -> reference)
    heap,      \* reference -> [cls, d], d the instance's __dict__
    slots,     \* the caller's variables: slot -> reference or NoRef
    files,     \* class name -> content of ".db_<class>.json", if it exists
    padYear,   \* whether the platform's strftime pads %Y to four digits
    last,      \* the last call: its name, class, arguments and outcome
    saved,     \* class name -> the ids saved and not removed since the start
    issued,    \* the values uuid4() returned, where the generator is followed
    made       \* the ids of the instances constructed, where it is followed

vars == <<DATA, heap, slots, files, padYear, last, saved, issued, made>>

(***************************************************************************)
(* Base.__init__                                                           *)
(***************************************************************************)
\* kwargs.get(k, default)
KwGet(kwargs, k, default) == IF k \in DOMAIN kwargs THEN kwargs[k] ELSE default

\* DATA after lines 46-48: the bucket of the class exists
EnsureBucket(data, cls) ==
    IF cls \in DOMAIN data THEN data ELSE data @@ (cls :> << >>)

\* lines 51-55 once the two timestamps are parsed: the instance's __dict__,
\* or the ValueError of the first strptime that failed
Attributes(id, created, updated) ==
    IF ~created.ok THEN created
    ELSE IF ~updated.ok THEN updated
    ELSE [ok |-> TRUE,
          val |-> [id |-> id, created_at |-> created.val, updated_at |-> updated.val]]

\* the attributes with the other keyword arguments stored beside them
WithKwargs(res, kwargs) ==
    IF res.ok THEN [ok |-> TRUE, val |-> res.val @@ kwargs] ELSE res

\* a constructor that stores every keyword argument on the instance
Base__init___KeepsKwargs(kwargs, uuid, now1, now2, pad) ==
    WithKwargs(Attributes(KwGet(kwargs, "id", uuid),
                          strptime(KwGet(kwargs, "created_at", strftime(now1, pad))),
                          strptime(KwGet(kwargs, "updated_at", strftime(now2, pad)))),
               kwargs)

\* a constructor whose default id was computed once, when the class was
\* defined, and is given to every instance that is constructed without an id
Base__init___SharedDefault(kwargs, uuid, now1, now2, pad) ==
    Attributes(KwGet(kwargs, "id", UuidSeq[1]),
               strptime(KwGet(kwargs, "created_at", strftime(now1, pad))),
               strptime(KwGet(kwargs, "updated_at", strftime(now2, pad))))

\* the instance's __dict__ after __init__, or the ValueError of strptime;
\* uuid, now1 and now2 are the results of uuid4() and of the two utcnow()
\* calls, which are made whether or not kwargs supplies the value
Base__init__(kwargs, uuid, now1, now2, pad) ==
    Attributes(KwGet(kwargs, "id", uuid),
               strptime(KwGet(kwargs, "created_at", strftime(now1, pad))),
               strptime(KwGet(kwargs, "updated_at", strftime(now2, pad))))

(***************************************************************************)
(* Base.__eq__ on two instances [cls, d]                                   *)
(***************************************************************************)
\* an __eq__ that does not compare the types
Base__eq___IdOnly(self, other) == self.d.id = other.d.id

Base__eq__(self, other) ==
    IF self.cls # other.cls THEN FALSE ELSE self.d.id = other.d.id

(***************************************************************************)
(* Base.to_json on an instance's __dict__                                  *)
(***************************************************************************)
\* a to_json that leaves the private fields out whatever it is asked for
to_json_Public(d, for_serialization, pad) ==
    [key \in {k \in DOMAIN d : k \notin PrivateFields} |->
        IF key \in StampFields THEN strftime(d[key], pad) ELSE d[key]]

to_json(d, for_serialization, pad) ==
    [key \in {k \in DOMAIN d : for_serialization \/ k \notin PrivateFields} |->
        IF key \in StampFields THEN strftime(d[key], pad) ELSE d[key]]

(***************************************************************************)
(* The heap.  An instance is live while a caller's variable or a bucket    *)
(* refers to it.  References are opaque, so after every call the live      *)
(* instances are renumbered in the order in which the caller's variables   *)
(* and then the buckets (by class and key) reach them; the other           *)
(* references are free.                                                    *)
(***************************************************************************)
BucketRefs(data) == UNION {{data[c][k] : k \in DOMAIN data[c]} : c \in DOMAIN data}

Live(data, sl) == ({sl[i] : i \in DOMAIN sl} \cup BucketRefs(data)) \ {NoRef}

\* the j-th lowest reference that is free
FreeRef(data, sl, j) ==
    CHOOSE r \in Refs \ Live(data, sl) :
        Cardinality({q \in Refs \ Live(data, sl) : q < r}) = j - 1

NewRef(data, sl) == FreeRef(data, sl, 1)

\* the references in the order in which the caller's variables and then the
\* buckets reach them
Reach(data, sl) ==
    [n \in 1..(Len(CallerVars) + Len(ClassSeq) * Len(KeySeq)) |->
        IF n <= Len(CallerVars) THEN sl[n]
        ELSE IF ClassSeq[((n - Len(CallerVars) - 1) \div Len(KeySeq)) + 1] \in DOMAIN data
        THEN getattr_ref(data[ClassSeq[((n - Len(CallerVars) - 1) \div Len(KeySeq)) + 1]],
                         KeySeq[((n - Len(CallerVars) - 1) % Len(KeySeq)) + 1])
        ELSE NoRef]

\* the first place at which each live reference is reached
Rank(reach, live) ==
    [r \in live |-> CHOOSE n \in DOMAIN reach :
                        reach[n] = r /\ \A m \in 1..(n - 1) : reach[m] # r]

\* the new number of each live reference
NewName(live, rank) ==
    [r \in live \cup {NoRef} |->
        IF r = NoRef THEN NoRef ELSE Cardinality({q \in live : rank[q] <= rank[r]})]

Renamed(h, data, sl, live, new) ==
    [DATA  |-> [c \in DOMAIN data |-> [k \in DOMAIN data[c] |-> new[data[c][k]]]],
     heap  |-> [n \in Refs |-> IF n <= Cardinality(live)
                               THEN h[CHOOSE r \in live : new[r] = n] ELSE NoObj],
     slots |-> [i \in DOMAIN sl |-> new[sl[i]]]]

Renumber(h, data, sl) ==
    Renamed(h, data, sl, Live(data, sl),
            NewName(Live(data, sl), Rank(Reach(data, sl), Live(data, sl))))

StoreAs(n) ==
    /\ DATA' = n.DATA
    /\ heap' = n.heap
    /\ slots' = n.slots

\* the state of the registry, the heap and the caller's variables after a call
Store(h, data, sl) == StoreAs(Renumber(h, data, sl))

\* the record of a call: exc is the exception it raised (None if it returned),
\* wrote whether it wrote the backing file, arg what the call was given and
\* what it found: the caller's variable and the kwargs of a constructor, the
\* id of the instance of save and remove and whether that id was a key of
\* the bucket (hit), the number of entries the bucket had before the call
Call(op, cls, exc, wrote, arg) ==
    [op |-> op, cls |-> cls, exc |-> exc, wrote |-> wrote, arg |-> arg]

Size(data, cls) == IF cls \in DOMAIN data THEN Cardinality(DOMAIN data[cls]) ELSE 0

Init ==
    /\ DATA = << >>
    /\ heap = [r \in Refs |-> NoObj]
    /\ slots = [i \in DOMAIN CallerVars |-> NoRef]
    /\ files = << >>
    /\ padYear \in BOOLEAN
    /\ last = Call("start", None, None, FALSE, << >>)
    /\ saved = [c \in Types |-> {}]
    /\ issued = {}
    /\ made = {}

\* a constructor that also stores the new instance in the bucket
Constructed_Registers(i, cls, kwargs, res, data) ==
    /\ IF res.ok
       THEN Store([heap EXCEPT ![NewRef(data, slots)] = [cls |-> cls, d |-> res.val]],
                  [data EXCEPT ![cls] = (res.val.id :> NewRef(data, slots)) @@ @],
                  [slots EXCEPT ![i] = NewRef(data, slots)])
       ELSE Store(heap, data, slots)
    /\ last' = Call("construct", cls, IF res.ok THEN None ELSE res.exc, FALSE,
                     [slot |-> i, kwargs |-> kwargs])
    /\ UNCHANGED <<files, padYear, saved, issued, made>>

\* the effect of x = cls(**kwargs) once __init__ returned or raised res
Constructed(i, cls, kwargs, res, data) ==
    /\ IF res.ok
       THEN Store([heap EXCEPT ![NewRef(data, slots)] = [cls |-> cls, d |-> res.val]],
                  data, [slots EXCEPT ![i] = NewRef(data, slots)])
       ELSE Store(heap, data, slots)
    /\ last' = Call("construct", cls, IF res.ok THEN None ELSE res.exc, FALSE,
                     [slot |-> i, kwargs |-> kwargs])
    /\ UNCHANGED <<files, padYear, saved, issued, made>>

\* x = cls(**kwargs) into the caller's variable i; a constructor that raises
\* leaves the variable as it was
Construct(i, cls, kwargs, uuid, now1, now2) ==
    Constructed(i, cls, kwargs, Base__init__(kwargs, uuid, now1, now2, padYear),
                EnsureBucket(DATA, cls))

\* the effect of x = cls(**kwargs) where the generator is followed: uuid is
\* the value uuid4() returned, and the id of the new instance is recorded
ConstructedFresh(i, cls, kwargs, res, data, uuid) ==
    /\ IF res.ok
       THEN Store([heap EXCEPT ![NewRef(data, slots)] = [cls |-> cls, d |-> res.val]],
                  data, [slots EXCEPT ![i] = NewRef(data, slots)])
       ELSE Store(heap, data, slots)
    /\ last' = Call("construct", cls, IF res.ok THEN None ELSE res.exc, FALSE,
                     [slot |-> i, kwargs |-> kwargs])
    /\ issued' = issued \cup {uuid}
    /\ made' = IF res.ok THEN made \cup {res.val.id} ELSE made
    /\ UNCHANGED <<files, padYear, saved>>

\* x = cls(**kwargs) while uuid4() still has a value it did not return before
ConstructFresh(i, cls, kwargs, uuid, now1, now2) ==
    /\ uuid \in Uuids \ issued
    /\ ConstructedFresh(i, cls, kwargs, Base__init__(kwargs, uuid, now1, now2, padYear),
                        EnsureBucket(DATA, cls), uuid)

\* the effect of x = type(x)(**x.to_json()) once __init__ returned or raised res
Reconstructed(i, cls, kwargs, res, data) ==
    /\ IF res.ok
       THEN Store([heap EXCEPT ![NewRef(data, slots)] = [cls |-> cls, d |-> res.val]],
                  data, [slots EXCEPT ![i] = NewRef(data, slots)])
       ELSE Store(heap, data, slots)
    /\ last' = Call("reconstruct", cls, IF res.ok THEN None ELSE res.exc, FALSE,
                     [slot |-> i, kwargs |-> kwargs])
    /\ UNCHANGED <<files, padYear, saved, issued, made>>

ReconstructFrom(i, cls, kwargs, uuid, now1, now2) ==
    Reconstructed(i, cls, kwargs, Base__init__(kwargs, uuid, now1, now2, padYear),
                  EnsureBucket(DATA, cls))

\* x = type(x)(**x.to_json()) on the caller's variable i
Reconstruct(i, uuid, now1, now2) ==
    /\ slots[i] # NoRef
    /\ ReconstructFrom(i, heap[slots[i]].cls, to_json(heap[slots[i]].d, FALSE, padYear),
                       uuid, now1, now2)

(***************************************************************************)
(* The backing file of a class holds the text json.dump wrote: a JSON      *)
(* object whose keys are the bucket's keys and whose values are the        *)
(* to_json(True) maps.  The keys and values of the model are strings,      *)
(* which json.dump and json.load carry unchanged; json is FALSE for a file *)
(* whose text json.load cannot parse.                                      *)
(***************************************************************************)
JsonFile(doc) == [json |-> TRUE, doc |-> doc]

\* a save_to_file that opens the file for update and keeps the entries it
\* does not rewrite
save_to_file_Update(data, h, cls, pad) ==
    LET doc == [obj_id \in DOMAIN data[cls] |-> to_json(h[data[cls][obj_id]].d, TRUE, pad)]
    IN  JsonFile(IF cls \in DOMAIN files /\ files[cls].json
                 THEN doc @@ files[cls].doc ELSE doc)

\* the text save_to_file writes for the class (lines 98-101)
save_to_file(data, h, cls, pad) ==
    JsonFile([obj_id \in DOMAIN data[cls] |-> to_json(h[data[cls][obj_id]].d, TRUE, pad)])

\* dict assignment d[k] = v and del d[k]
DictSet(d, k, v) == (k :> v) @@ d

\* a del that leaves the entry in place
DictDel_Keep(d, k) == d

DictDel(d, k) == [j \in DOMAIN d \ {k} |-> d[j]]

\* a save that leaves updated_at as it was
Save_KeepsStamp(r, now) ==
    LET cls  == heap[r].cls
        data == [DATA EXCEPT ![cls] = DictSet(@, heap[r].d.id, r)]
    IN  /\ r \in Live(DATA, slots)
        /\ Store(heap, data, slots)
        /\ files' = DictSet(files, cls, save_to_file(data, heap, cls, padYear))
        /\ last' = Call("save", cls, None, TRUE,
                         [id |-> heap[r].d.id, hit |-> heap[r].d.id \in DOMAIN DATA[cls],
                          had |-> Size(DATA, cls)])
        /\ saved' = [saved EXCEPT ![cls] = @ \cup {heap[r].d.id}]
        /\ UNCHANGED <<padYear, issued, made>>

\* self.save() on the instance r; now is the result of utcnow()
Save(r, now) ==
    LET cls  == heap[r].cls
        h    == [heap EXCEPT ![r].d.updated_at = now]
        data == [DATA EXCEPT ![cls] = DictSet(@, h[r].d.id, r)]
    IN  /\ r \in Live(DATA, slots)
        /\ Store(h, data, slots)
        /\ files' = DictSet(files, cls, save_to_file(data, h, cls, padYear))
        /\ last' = Call("save", cls, None, TRUE,
                         [id |-> heap[r].d.id, hit |-> heap[r].d.id \in DOMAIN DATA[cls],
                          had |-> Size(DATA, cls)])
        /\ saved' = [saved EXCEPT ![cls] = @ \cup {heap[r].d.id}]
        /\ UNCHANGED <<padYear, issued, made>>

\* a remove that persists the bucket whether or not the id was a key
Remove_AlwaysWrites(r) ==
    LET cls  == heap[r].cls
        hit  == heap[r].d.id \in DOMAIN DATA[cls]
        data == IF hit THEN [DATA EXCEPT ![cls] = DictDel(@, heap[r].d.id)] ELSE DATA
    IN  /\ r \in Live(DATA, slots)
        /\ Store(heap, data, slots)
        /\ files' = DictSet(files, cls, save_to_file(data, heap, cls, padYear))
        /\ last' = Call("remove", cls, None, TRUE,
                         [id |-> heap[r].d.id, hit |-> hit, had |-> Size(DATA, cls)])
        /\ saved' = IF hit THEN [saved EXCEPT ![cls] = @ \ {heap[r].d.id}] ELSE saved
        /\ UNCHANGED <<padYear, issued, made>>

\* self.remove() on the instance r
Remove(r) ==
    LET cls  == heap[r].cls
        hit  == heap[r].d.id \in DOMAIN DATA[cls]
        data == IF hit THEN [DATA EXCEPT ![cls] = DictDel(@, heap[r].d.id)] ELSE DATA
    IN  /\ r \in Live(DATA, slots)
        /\ Store(heap, data, slots)
        /\ files' = IF hit THEN DictSet(files, cls, save_to_file(data, heap, cls, padYear))
                    ELSE files
        /\ last' = Call("remove", cls, None, hit,
                         [id |-> heap[r].d.id, hit |-> hit, had |-> Size(DATA, cls)])
        /\ saved' = IF hit THEN [saved EXCEPT ![cls] = @ \ {heap[r].d.id}] ELSE saved
        /\ UNCHANGED <<padYear, issued, made>>

\* the number of entries the loop of lines 90-91 constructs: it stops at the
\* first entry whose construction raises; res[j] is what the constructor
\* returns or raises for the j-th entry
Done(res) ==
    CHOOSE p \in 0..Len(res) :
        /\ \A j \in 1..p : res[j].ok
        /\ p = Len(res) \/ ~res[p + 1].ok

\* the outcome of the loop: the first done entries are stored under their
\* keys as new instances
Looped(keys, cls, data, h, sl, res, done) ==
    [exc  |-> IF done = Len(keys) THEN None ELSE res[done + 1].exc,
     data |-> [data EXCEPT ![cls] =
                  [k \in {keys[j] : j \in 1..done} |->
                      FreeRef(data, sl, CHOOSE j \in 1..done : keys[j] = k)]],
     heap |-> [r \in Refs |->
                  IF \E j \in 1..done : FreeRef(data, sl, j) = r
                  THEN [cls |-> cls,
                        d |-> res[CHOOSE j \in 1..done : FreeRef(data, sl, j) = r].val]
                  ELSE h[r]]]

LoopOver(keys, cls, data, h, sl, res) == Looped(keys, cls, data, h, sl, res, Done(res))

\* a loop that constructs each instance without the fields of its entry
LoadLoop_NoKwargs(keys, doc, cls, data, h, sl, uuid, now) ==
    LoopOver(keys, cls, data, h, sl,
             [j \in DOMAIN keys |-> Base__init__(<< >>, uuid, now, now, padYear)])

\* the loop of lines 90-91 over the entries of the file in the order keys
LoadLoop(keys, doc, cls, data, h, sl, uuid, now) ==
    LoopOver(keys, cls, data, h, sl,
             [j \in DOMAIN keys |-> Base__init__(doc[keys[j]], uuid, now, now, padYear)])

\* the orders in which a dict with key set S can be iterated
Orders(S) == {o \in [1..Cardinality(S) -> S] : \A i, j \in DOMAIN o : o[i] = o[j] => i = j}

\* a load_from_file that resets the bucket only after it found the file
load_from_file_LateReset(cls, order, uuid, now) ==
    IF cls \notin DOMAIN files
    THEN [exc |-> None, data |-> EnsureBucket(DATA, cls), heap |-> heap]
    ELSE IF ~files[cls].json
    THEN [exc |-> "JSONDecodeError", data |-> DictSet(DATA, cls, << >>), heap |-> heap]
    ELSE LoadLoop(order, files[cls].doc, cls, DictSet(DATA, cls, << >>), heap, slots,
                  uuid, now)

\* a load_from_file that empties the whole registry, not the bucket alone
load_from_file_ResetsAll(cls, order, uuid, now) ==
    IF cls \notin DOMAIN files
    THEN [exc |-> None, data |-> (cls :> << >>), heap |-> heap]
    ELSE IF ~files[cls].json
    THEN [exc |-> "JSONDecodeError", data |-> (cls :> << >>), heap |-> heap]
    ELSE LoadLoop(order, files[cls].doc, cls, (cls :> << >>), heap, slots, uuid, now)

\* a load_from_file that parses the file before it resets the bucket
load_from_file_ParseFirst(cls, order, uuid, now) ==
    IF cls \notin DOMAIN files
    THEN [exc |-> None, data |-> DictSet(DATA, cls, << >>), heap |-> heap]
    ELSE IF ~files[cls].json
    THEN [exc |-> "JSONDecodeError", data |-> EnsureBucket(DATA, cls), heap |-> heap]
    ELSE LoadLoop(order, files[cls].doc, cls, DictSet(DATA, cls, << >>), heap, slots,
                  uuid, now)

\* cls.load_from_file(); order is the order of the keys in the file
load_from_file(cls, order, uuid, now) ==
    IF cls \notin DOMAIN files
    THEN [exc |-> None, data |-> DictSet(DATA, cls, << >>), heap |-> heap]
    ELSE IF ~files[cls].json
    THEN [exc |-> "JSONDecodeError", data |-> DictSet(DATA, cls, << >>), heap |-> heap]
    ELSE LoadLoop(order, files[cls].doc, cls, DictSet(DATA, cls, << >>), heap, slots,
                  uuid, now)

\* the keys json.load returns for the file of the class
FileKeys(cls) ==
    IF cls \in DOMAIN files /\ files[cls].json THEN DOMAIN files[cls].doc ELSE {}

\* the state after load_from_file returned or raised res
Loaded(cls, res) ==
    /\ Store(res.heap, res.data, slots)
    /\ last' = Call("load_from_file", cls, res.exc, FALSE, [had |-> Size(DATA, cls)])
    /\ UNCHANGED <<files, padYear, saved, issued, made>>

LoadFromFile(cls, uuid, now) ==
    \E order \in Orders(FileKeys(cls)) : Loaded(cls, load_from_file(cls, order, uuid, now))

\* the caller, or the constructor of a concrete class, sets the field k of
\* the instance r
SetAttr(r, k, v) ==
    /\ r \in Live(DATA, slots)
    /\ heap' = [heap EXCEPT ![r].d = DictSet(@, k, v)]
    /\ last' = Call("setattr", heap[r].cls, None, FALSE, [field |-> k])
    /\ UNCHANGED <<DATA, slots, files, padYear, saved, issued, made>>

(***************************************************************************)
(* The queries.  A call returns a value or raises.                         *)
(***************************************************************************)
Return(v) == [exc |-> None, ret |-> v]

Raise(e) == [exc |-> e]

count(data, cls) ==
    IF cls \notin DOMAIN data THEN Raise("KeyError")
    ELSE Return(Cardinality(DOMAIN data[cls]))

\* the reference stored under id, NoRef for Python's None
get(data, cls, id) ==
    IF cls \notin DOMAIN data THEN Raise("KeyError")
    ELSE Return(IF id \in DOMAIN data[cls] THEN data[cls][id] ELSE NoRef)

getattr(d, k, default) == IF k \in DOMAIN d THEN d[k] ELSE default

\* a _search that accepts an instance on which any one listed field matches
_search_Any(d, attributes) ==
    IF DOMAIN attributes = {} THEN TRUE
    ELSE \E k \in DOMAIN attributes : getattr(d, k, None) = attributes[k]

\* a _search that accepts no instance when no field is listed
_search_EmptyNone(d, attributes) ==
    IF DOMAIN attributes = {} THEN FALSE
    ELSE \A k \in DOMAIN attributes : getattr(d, k, None) = attributes[k]

\* the inner function _search of search
_search(d, attributes) ==
    IF DOMAIN attributes = {} THEN TRUE
    ELSE \A k \in DOMAIN attributes : getattr(d, k, None) = attributes[k]

\* the instances in the list search returns
search(data, h, cls, attributes) ==
    IF cls \notin DOMAIN data THEN Raise("KeyError")
    ELSE Return({r \in {data[cls][k] : k \in DOMAIN data[cls]} : _search(h[r].d, attributes)})

all(data, h, cls) == search(data, h, cls, << >>)

(***************************************************************************)
(* The environment: another process deletes or overwrites the backing      *)
(* file of a class.                                                        *)
(***************************************************************************)
Garbage == [json |-> FALSE, doc |-> << >>]

Unlink(cls) ==
    /\ cls \in DOMAIN files
    /\ files' = DictDel(files, cls)
    /\ last' = Call("unlink", cls, None, FALSE, << >>)
    /\ UNCHANGED <<DATA, heap, slots, padYear, saved, issued, made>>

ExternalWrite(cls, content) ==
    /\ files' = DictSet(files, cls, content)
    /\ last' = Call("external_write", cls, None, FALSE, << >>)
    /\ UNCHANGED <<DATA, heap, slots, padYear, saved, issued, made>>

(***************************************************************************)
(* Spec: one process, started with no backing file, working on one class.  *)
(***************************************************************************)
SpecClass == "User"

\* the keyword arguments a caller passes to the constructor
IdKwargs == {<< >>} \cup {[id |-> i] : i \in Ids}

CallerKwargs ==
    IdKwargs \cup {kw @@ [created_at |-> OldStamp] : kw \in IdKwargs}

Next ==
    \/ \E i \in DOMAIN CallerVars, kw \in CallerKwargs, u \in UuidPool, n \in Nows :
          Construct(i, SpecClass, kw, u, n, n)
    \/ \E r \in Refs, n \in Nows : Save(r, n)
    \/ \E r \in Refs : Remove(r)
    \/ \E u \in UuidPool, n \in Nows : LoadFromFile(SpecClass, u, n)

Spec == Init /\ [][Next]_vars

(***************************************************************************)
(* SpecEnv: the same process while other processes delete or corrupt the   *)
(* backing file.                                                           *)
(***************************************************************************)
NextEnv ==
    \/ \E i \in DOMAIN CallerVars, kw \in IdKwargs, u \in UuidPool, n \in Nows :
          Construct(i, SpecClass, kw, u, n, n)
    \/ \E r \in Refs, n \in Nows : Save(r, n)
    \/ \E r \in Refs : Remove(r)
    \/ \E u \in UuidPool, n \in Nows : LoadFromFile(SpecClass, u, n)
    \/ Unlink(SpecClass)
    \/ ExternalWrite(SpecClass, Garbage)

SpecEnv == Init /\ [][NextEnv]_vars

(***************************************************************************)
(* SpecAttr: the process also assigns the field name of its instances.     *)
(***************************************************************************)
NextAttr ==
    \/ \E i \in DOMAIN CallerVars, kw \in IdKwargs, u \in UuidPool, n \in Nows :
          Construct(i, SpecClass, kw, u, n, n)
    \/ \E r \in Refs, v \in Names : SetAttr(r, "name", v)
    \/ \E r \in Refs, n \in Nows : Save(r, n)
    \/ \E r \in Refs : Remove(r)

SpecAttr == Init /\ [][NextAttr]_vars

(***************************************************************************)
(* SpecCtor: the constructor alone, given every combination of an id, a    *)
(* created_at (old or malformed), an updated_at and a field name, the      *)
(* reconstruction of an instance from its to_json map, and save, which     *)
(* gives updated_at a microsecond part.                                    *)
(***************************************************************************)
CtorKwargs ==
    {k1 @@ k2 @@ k3 @@ k4 :
        k1 \in IdKwargs,
        k2 \in {<< >>, [created_at |-> OldStamp], [created_at |-> BadStamp]},
        k3 \in {<< >>, [updated_at |-> OldStamp]},
        k4 \in {<< >>, [name |-> "x"]}}

NextCtor ==
    \/ \E i \in DOMAIN CallerVars, kw \in CtorKwargs, u \in UuidPool, n \in Nows :
          Construct(i, SpecClass, kw, u, n, n)
    \/ \E i \in DOMAIN CallerVars, u \in UuidPool, n \in Nows : Reconstruct(i, u, n, n)
    \/ \E r \in Refs, n \in Nows : Save(r, n)

SpecCtor == Init /\ [][NextCtor]_vars

(***************************************************************************)
(* SpecUuid: the generator of ids is followed.  uuid4() draws 122 random   *)
(* bits; as usual for generated names it is taken to return no value       *)
(* twice, and a caller that passes an id passes one of its own or one that *)
(* an instance already has.                                                *)
(***************************************************************************)
NextUuid ==
    \/ \E i \in DOMAIN CallerVars, u \in Uuids, n \in Nows,
           kw \in {<< >>} \cup {[id |-> x] : x \in Ids \cup made} :
          ConstructFresh(i, SpecClass, kw, u, n, n)
    \/ \E r \in Refs, n \in Nows : Save(r, n)
    \/ \E r \in Refs : Remove(r)

SpecUuid == Init /\ [][NextUuid]_vars

(***************************************************************************)
(* SpecTypes: one process working on the two classes.                      *)
(***************************************************************************)
NextTypes ==
    \/ \E i \in DOMAIN CallerVars, cls \in Types, x \in Ids, u \in UuidPool, n \in Nows :
          Construct(i, cls, [id |-> x], u, n, n)
    \/ \E r \in Refs, n \in Nows : Save(r, n)
    \/ \E r \in Refs : Remove(r)
    \/ \E cls \in Types, u \in UuidPool, n \in Nows : LoadFromFile(cls, u, n)

SpecTypes == Init /\ [][NextTypes]_vars

(***************************************************************************)
(* SpecEq: instances of the two classes that differ in their timestamps,   *)
(* in the field name and in being stored in the registry.                  *)
(***************************************************************************)
NextEq ==
    \/ \E i \in DOMAIN CallerVars, cls \in Types, x \in Ids, u \in UuidPool, n \in Nows :
          Construct(i, cls, [id |-> x], u, n, n)
    \/ \E r \in Refs : SetAttr(r, "name", "x")
    \/ \E r \in Refs, n \in Nows : Save(r, n)

SpecEq == Init /\ [][NextEq]_vars

(***************************************************************************)
(* SpecPriv: the process assigns a public and a private field of its       *)
(* instances and saves them.                                               *)
(***************************************************************************)
NextPriv ==
    \/ \E i \in DOMAIN CallerVars, kw \in IdKwargs, u \in UuidPool, n \in Nows :
          Construct(i, SpecClass, kw, u, n, n)
    \/ \E r \in Refs, k \in {"name"} \cup PrivateFields : SetAttr(r, k, "x")
    \/ \E r \in Refs, n \in Nows : Save(r, n)

SpecPriv == Init /\ [][NextPriv]_vars

(***************************************************************************)
(* Properties.                                                             *)
(***************************************************************************)
\* the document that holds exactly the bucket of the class: its keys, each
\* with the to_json(True) map of the instance stored under it
Dumped(data, h, cls) ==
    [k \in DOMAIN data[cls] |-> to_json(h[data[cls][k]].d, TRUE, padYear)]

\* C1: after a load_from_file that follows saves (and removes) of a process
\* that started with an empty bucket, the bucket's keys are exactly the ids
\* saved and not removed, and under each key is an instance of the class
\* with that id.
C1_SaveThenLoadReproducesBucket ==
    last.op = "load_from_file" =>
        LET c == last.cls
        IN  /\ DOMAIN DATA[c] = saved[c]
            /\ \A k \in DOMAIN DATA[c] :
                  Base__eq__(heap[DATA[c][k]], [cls |-> c, d |-> [id |-> k]])

\* C2: a save and a remove of a present id leave in the backing file exactly
\* the bucket as it is after the call (its keys, each with its to_json(True)
\* map, nothing else); every other call leaves every file as it was.
C2_FileIsLastWrittenBucket ==
    [][LET c == last'.cls
       IN  IF \/ last'.op = "save"
              \/ (last'.op = "remove" /\ last'.arg.id \in DOMAIN DATA[c])
           THEN /\ c \in DOMAIN files'
                /\ files'[c] = JsonFile(Dumped(DATA', heap', c))
                /\ \A o \in Types \ {c} :
                      /\ o \in DOMAIN files' <=> o \in DOMAIN files
                      /\ o \in DOMAIN files => files'[o] = files[o]
           ELSE files' = files]_vars

\* two ids were saved, one was removed, and the file holds the other alone
C2_Witness ==
    /\ last.op = "remove" /\ last.wrote /\ last.arg.had = 2
    /\ last.cls \in DOMAIN files
    /\ Cardinality(DOMAIN files[last.cls].doc) = 1

\* C3: an empty bucket counts 0, a save of an id that is not yet a key makes
\* count one more than before, and a remove of an instance whose id is a key
\* makes it one less: N saves of distinct ids give N, a remove then N-1.
C3_CountFollowsSavesAndRemoves ==
    /\ \A c \in DOMAIN DATA : DATA[c] = << >> => count(DATA, c) = Return(0)
    /\ last.op = "save" /\ ~last.arg.hit
          => count(DATA, last.cls) = Return(last.arg.had + 1)
    /\ last.op = "remove" /\ last.arg.hit
          => count(DATA, last.cls) = Return(last.arg.had - 1)

\* after two saves of distinct ids, one of the two was removed
C3_Witness ==
    /\ last.op = "remove" /\ last.arg.hit /\ last.arg.had = 2
    /\ count(DATA, last.cls) = Return(1)
    /\ saved[last.cls] # {}

\* C4: remove of an instance whose id is not a key raises nothing and leaves
\* the registry and the files as they were; remove of an instance whose id
\* is a key raises nothing, deletes that key alone, leaves the instances
\* under the other keys as they were and rewrites the file.
C4_RemoveFrame ==
    [][last'.op = "remove" =>
         LET c  == last'.cls
             id == last'.arg.id
         IN  /\ last'.exc = None
             /\ IF id \notin DOMAIN DATA[c]
                THEN DATA' = DATA /\ files' = files /\ ~last'.wrote
                ELSE /\ DOMAIN DATA'[c] = DOMAIN DATA[c] \ {id}
                     /\ \A k \in DOMAIN DATA'[c] :
                           heap'[DATA'[c][k]] = heap[DATA[c][k]]
                     /\ last'.wrote
                     /\ files'[c] = JsonFile(Dumped(DATA', heap', c))]_vars

\* a remove of an absent id on a bucket that holds another entry
C4_Witness ==
    /\ last.op = "remove" /\ ~last.arg.hit /\ last.arg.had >= 1
    /\ Size(DATA, last.cls) = last.arg.had

\* C5: load_from_file of a class that has no backing file raises nothing
\* and leaves the bucket of the class empty, whatever it held before.
C5_LoadWithoutFile ==
    last.op = "load_from_file" /\ last.cls \notin DOMAIN files =>
        /\ last.exc = None
        /\ last.cls \in DOMAIN DATA
        /\ DATA[last.cls] = << >>
        /\ count(DATA, last.cls) = Return(0)

\* the bucket held an entry when the load found no file
C5_Witness ==
    /\ last.op = "load_from_file" /\ last.cls \notin DOMAIN files
    /\ last.arg.had >= 1
    /\ DATA[last.cls] = << >>

\* C6: for every class and id, get returns the reference stored under the
\* id, or None when there is none, and never raises.
C6_GetNeverRaises ==
    \A c \in Types, id \in Ids \cup UuidPool :
        LET res == get(DATA, c, id)
        IN  /\ res.exc = None
            /\ res.ret = IF c \in DOMAIN DATA /\ id \in DOMAIN DATA[c]
                         THEN DATA[c][id] ELSE NoRef

\* the non-empty attribute maps search is given: a name, an id, or both; "z"
\* is a name no instance has
SearchMaps ==
    {[name |-> v] : v \in Names \cup {"z"}}
        \cup {[id |-> i] : i \in Ids \cup UuidPool}
        \cup {[id |-> i, name |-> v] : i \in Ids \cup UuidPool, v \in Names}

\* the instance has every listed field, with the expected value
HasEvery(d, attributes) ==
    \A k \in DOMAIN attributes : k \in DOMAIN d /\ d[k] = attributes[k]

\* C7: for every class that has a bucket and every non-empty attributes map
\* with non-null values, search returns exactly the instances of the bucket
\* that have every listed field with the expected value; an instance on which
\* a listed field differs or is absent is not returned.
C7_SearchReturnsExactlyMatches ==
    \A c \in DOMAIN DATA, a \in SearchMaps :
        LET res == search(DATA, heap, c, a)
        IN  /\ res.exc = None
            /\ res.ret = {r \in {DATA[c][k] : k \in DOMAIN DATA[c]} :
                              HasEvery(heap[r].d, a)}
            /\ \A k \in DOMAIN DATA[c] :
                  (\E f \in DOMAIN a : \/ f \notin DOMAIN heap[DATA[c][k]].d
                                       \/ heap[DATA[c][k]].d[f] # a[f])
                      => DATA[c][k] \notin res.ret

\* the bucket holds two instances, one named "x" and one without a name;
\* search for the name "x" returns the first alone, also when its id is asked
\* for as well
C7_Witness ==
    \E c \in DOMAIN DATA :
        /\ Cardinality(DOMAIN DATA[c]) = 2
        /\ Cardinality(search(DATA, heap, c, [name |-> "x"]).ret) = 1
        /\ \E k \in DOMAIN DATA[c] : "name" \notin DOMAIN heap[DATA[c][k]].d
        /\ \E k \in DOMAIN DATA[c] :
              search(DATA, heap, c, [id |-> k, name |-> "x"]).ret = {DATA[c][k]}

\* C8: for every class that has a bucket, search with an empty attributes
\* map and all return the same set of instances, and that set is the whole
\* bucket: the instance under every key, nothing else.
C8_SearchEmptyIsAll ==
    \A c \in DOMAIN DATA :
        /\ search(DATA, heap, c, << >>).exc = None
        /\ all(DATA, heap, c) = search(DATA, heap, c, << >>)
        /\ all(DATA, heap, c).ret = {DATA[c][k] : k \in DOMAIN DATA[c]}

\* the bucket holds two instances, of which only one has a name, and all
\* returns both
C8_Witness ==
    \E c \in DOMAIN DATA :
        /\ Cardinality(all(DATA, heap, c).ret) = 2
        /\ Cardinality({k \in DOMAIN DATA[c] : "name" \in DOMAIN heap[DATA[c][k]].d}) = 1

\* the fields Base.__init__ sets
BaseFields == {"id", "created_at", "updated_at"}

\* C9 as stated: after a constructor that returned, to_json(True) of the new
\* instance maps every keyword argument other than id, created_at and
\* updated_at to the value that was passed.
C9_ConstructStoresEveryField ==
    last.op = "construct" /\ last.exc = None =>
        \A k \in DOMAIN last.arg.kwargs \ BaseFields :
            /\ k \in DOMAIN to_json(heap[slots[last.arg.slot]].d, TRUE, padYear)
            /\ to_json(heap[slots[last.arg.slot]].d, TRUE, padYear)[k] = last.arg.kwargs[k]

\* C9 amended: after a constructor that returned, to_json(True) of the new
\* instance has exactly the keys id, created_at and updated_at, whatever
\* other keyword arguments were passed: those are not stored.
C9_ConstructStoresOnlyBaseFields ==
    last.op = "construct" /\ last.exc = None =>
        /\ DOMAIN to_json(heap[slots[last.arg.slot]].d, TRUE, padYear) = BaseFields
        /\ DOMAIN heap[slots[last.arg.slot]].d = BaseFields
        /\ "id" \in DOMAIN last.arg.kwargs
              => heap[slots[last.arg.slot]].d.id = last.arg.kwargs.id

\* a constructor returned that was given an id, a created_at and a name
C9_Witness ==
    /\ last.op = "construct" /\ last.exc = None
    /\ {"id", "created_at", "name"} \subseteq DOMAIN last.arg.kwargs
    /\ slots[last.arg.slot] # NoRef

\* C10: a reconstruction of an instance from its to_json map returns, and the
\* new instance is __eq__ to the old one, has the same id, and has its
\* created_at and updated_at without the microseconds.
C10_ReconstructionIsEqual ==
    [][last'.op = "reconstruct" =>
         /\ last'.exc = None
         /\ Base__eq__(heap'[slots'[last'.arg.slot]], heap[slots[last'.arg.slot]])
         /\ heap'[slots'[last'.arg.slot]].d.id = heap[slots[last'.arg.slot]].d.id
         /\ \A k \in StampFields :
               heap'[slots'[last'.arg.slot]].d[k]
                   = [heap[slots[last'.arg.slot]].d[k] EXCEPT !.microsecond = 0]]_vars

\* C11: a constructor that is given an id gives the instance exactly that
\* id; a constructor that is given none gives it an id that no instance
\* constructed before has and that is a key of no bucket of the registry.
C11_IdGivenOrNew ==
    [][last'.op = "construct" /\ last'.exc = None =>
         IF "id" \in DOMAIN last'.arg.kwargs
         THEN heap'[slots'[last'.arg.slot]].d.id = last'.arg.kwargs.id
         ELSE /\ heap'[slots'[last'.arg.slot]].d.id \notin made
              /\ \A c \in DOMAIN DATA :
                    heap'[slots'[last'.arg.slot]].d.id \notin DOMAIN DATA[c]]_vars

\* an instance was constructed without an id after another one that was
\* constructed without an id and is stored in the registry
C11_Witness ==
    /\ last.op = "construct" /\ last.exc = None
    /\ "id" \notin DOMAIN last.arg.kwargs
    /\ Cardinality(made) = 2 /\ made \subseteq Uuids
    /\ \E c \in DOMAIN DATA : DOMAIN DATA[c] # {} /\ DOMAIN DATA[c] \subseteq made

\* C12: for every two instances, __eq__ is true exactly when they are of the
\* same class and have the same id, whatever their timestamps and other
\* fields are and whether or not they are stored in the registry.
C12_EqualsIsTypeAndId ==
    \A a, b \in Live(DATA, slots) :
        Base__eq__(heap[a], heap[b])
            <=> (heap[a].cls = heap[b].cls /\ heap[a].d.id = heap[b].d.id)

\* two instances of one class with the same id are equal although one alone
\* is stored, has a name and was saved, and an instance of the other class
\* with that id is equal to neither
C12_Witness ==
    \E a, b, c \in Live(DATA, slots) :
        /\ a # b /\ Base__eq__(heap[a], heap[b])
        /\ a \in BucketRefs(DATA) /\ b \notin BucketRefs(DATA)
        /\ "name" \in DOMAIN heap[a].d /\ "name" \notin DOMAIN heap[b].d
        /\ heap[a].d.updated_at # heap[b].d.updated_at
        /\ heap[c].cls # heap[a].cls /\ heap[c].d.id = heap[a].d.id
        /\ ~Base__eq__(heap[a], heap[c]) /\ ~Base__eq__(heap[c], heap[b])

\* what C13 says of a save of the instance r of class c with id id at the
\* instant now
SaveEffect(r, c, id, now) ==
    /\ DOMAIN DATA'[c] = DOMAIN DATA[c] \cup {id}
    /\ heap'[DATA'[c][id]] = [heap[r] EXCEPT !.d.updated_at = now]
    /\ \A i \in DOMAIN slots : slots[i] = r => slots'[i] = DATA'[c][id]
    /\ \A k \in DOMAIN DATA[c] \ {id} :
          /\ heap'[DATA'[c][k]] = heap[DATA[c][k]]
          /\ DATA'[c][k] # DATA'[c][id]
    /\ get(DATA', c, id) = Return(DATA'[c][id])
    /\ id \in DOMAIN DATA[c] => count(DATA', c) = count(DATA, c)

\* C13: save of an instance sets its updated_at to the current time and
\* stores the instance under its id in the bucket of its class, in place of
\* whatever was stored under that id; the instances under the other keys
\* stay as they were, get of the id then returns the instance, and count is
\* as before when the id was a key already.
C13_SaveStoresUnderId ==
    [][\A r \in Refs, n \in Nows :
          Save(r, n) => SaveEffect(r, heap[r].cls, heap[r].d.id, n)]_vars

\* a save put the caller's instance in the place of the entry of its id,
\* in a bucket that holds another entry as well
C13_Witness ==
    /\ last.op = "save" /\ last.arg.hit /\ last.arg.had = 2
    /\ slots[1] # NoRef
    /\ DATA[last.cls][last.arg.id] = slots[1]
    /\ heap[slots[1]].d.updated_at \in Nows
    /\ heap[slots[1]].d.created_at.year = 999

\* C14: in every bucket, the instance under a key is of the bucket's class
\* and has that key as its id, and the instances under two keys are two
\* instances with two ids: no id is held twice.
C14_KeysAreIds ==
    \A c \in DOMAIN DATA :
        \A k \in DOMAIN DATA[c] :
            /\ heap[DATA[c][k]].cls = c
            /\ heap[DATA[c][k]].d.id = k
            /\ \A j \in DOMAIN DATA[c] \ {k} :
                  /\ DATA[c][j] # DATA[c][k]
                  /\ heap[DATA[c][j]].d.id # heap[DATA[c][k]].d.id

\* a load rebuilt a bucket of two entries, while the caller holds a third
\* instance that has the id of one of them
C14_Witness ==
    /\ last.op = "load_from_file" /\ last.exc = None
    /\ Cardinality(DOMAIN DATA[last.cls]) = 2
    /\ slots[1] # NoRef /\ slots[1] \notin BucketRefs(DATA)
    /\ heap[slots[1]].d.id \in DOMAIN DATA[last.cls]

\* C15: a constructor call leaves the class with a bucket, which is empty
\* when the class had none and otherwise holds the entries it held (so count
\* is as before); the new instance is in no bucket, the buckets of the other
\* classes and the files are as they were.  This holds also of a call that
\* raises.
C15_ConstructFrame ==
    [][last'.op = "construct" =>
         /\ last'.cls \in DOMAIN DATA'
         /\ DOMAIN DATA' = DOMAIN DATA \cup {last'.cls}
         /\ last'.cls \notin DOMAIN DATA => DATA'[last'.cls] = << >>
         /\ \A c \in DOMAIN DATA :
               /\ DOMAIN DATA'[c] = DOMAIN DATA[c]
               /\ \A k \in DOMAIN DATA[c] : heap'[DATA'[c][k]] = heap[DATA[c][k]]
               /\ count(DATA', c) = count(DATA, c)
         /\ last'.exc = None => slots'[last'.arg.slot] \notin BucketRefs(DATA')
         /\ files' = files]_vars

\* a constructor returned an instance whose id is a key of the bucket, and
\* the bucket holds another instance under it
C15_Witness ==
    /\ last.op = "construct" /\ last.exc = None
    /\ heap[slots[last.arg.slot]].d.id \in DOMAIN DATA[last.cls]
    /\ DATA[last.cls][heap[slots[last.arg.slot]].d.id] # slots[last.arg.slot]
    /\ last.cls \in DOMAIN files

\* C16: to_json() of an instance has exactly its fields that are not
\* private and to_json(True) has all its fields, each with the field's value
\* (a timestamp as its string); the file a save wrote holds under each key
\* the to_json(True) map of the instance, private fields included.
C16_PrivateFieldsInFileOnly ==
    /\ \A r \in Live(DATA, slots) :
          /\ DOMAIN to_json(heap[r].d, FALSE, padYear) = DOMAIN heap[r].d \ PrivateFields
          /\ DOMAIN to_json(heap[r].d, TRUE, padYear) = DOMAIN heap[r].d
          /\ \A k \in DOMAIN heap[r].d \ StampFields :
                /\ to_json(heap[r].d, TRUE, padYear)[k] = heap[r].d[k]
                /\ k \notin PrivateFields => to_json(heap[r].d, FALSE, padYear)[k] = heap[r].d[k]
          /\ \A k \in DOMAIN heap[r].d \cap StampFields :
                to_json(heap[r].d, TRUE, padYear)[k] = strftime(heap[r].d[k], padYear)
    /\ last.op = "save" =>
          /\ DOMAIN files[last.cls].doc = DOMAIN DATA[last.cls]
          /\ \A k \in DOMAIN DATA[last.cls] :
                /\ DOMAIN files[last.cls].doc[k] = DOMAIN heap[DATA[last.cls][k]].d
                /\ \A f \in DOMAIN heap[DATA[last.cls][k]].d \ StampFields :
                      files[last.cls].doc[k][f] = heap[DATA[last.cls][k]].d[f]

\* a save wrote an instance that has a public and a private field beside an
\* instance that has neither
C16_Witness ==
    /\ last.op = "save" /\ Cardinality(DOMAIN DATA[last.cls]) = 2
    /\ \E k \in DOMAIN DATA[last.cls] :
          /\ {"name", "_password"} \subseteq DOMAIN heap[DATA[last.cls][k]].d
          /\ "_password" \in DOMAIN files[last.cls].doc[k]
          /\ "_password" \notin DOMAIN to_json(heap[DATA[last.cls][k]].d, FALSE, padYear)
    /\ \E k \in DOMAIN DATA[last.cls] :
          DOMAIN heap[DATA[last.cls][k]].d \cap ({"name"} \cup PrivateFields) = {}

\* C17: load_from_file of a class whose file is not JSON raises, leaves the
\* bucket of the class without any of the entries it held, and leaves the
\* files as they were.
C17_LoadOfUnparseableFile ==
    [][/\ last'.op = "load_from_file"
       /\ last'.cls \in DOMAIN files
       /\ ~files[last'.cls].json
       => /\ last'.exc = "JSONDecodeError"
          /\ last'.cls \in DOMAIN DATA'
          /\ DATA'[last'.cls] = << >>
          /\ files' = files]_vars

\* the load of a file that is not JSON raised, and the bucket, which held an
\* entry before, is empty
C17_Witness ==
    /\ last.op = "load_from_file" /\ last.exc = "JSONDecodeError"
    /\ last.arg.had >= 1
    /\ DATA[last.cls] = << >>
    /\ ~files[last.cls].json

\* C18: in a process that started without backing files, after every call
\* the ids in the backing file of a class (none when there is no file) are
\* the keys of the bucket of the class (none when there is no bucket).
C18_FileIdsAreBucketKeys ==
    \A c \in Types :
        FileKeys(c) = IF c \in DOMAIN DATA THEN DOMAIN DATA[c] ELSE {}

\* what get returned, with the instance shown by its fields
ShownOne(h, res) ==
    IF res.exc # None THEN res
    ELSE Return(IF res.ret = NoRef THEN NoObj ELSE h[res.ret])

\* what search or all returned, with each instance shown by its fields
ShownAll(h, res) ==
    IF res.exc # None THEN res ELSE Return({h[r] : r \in res.ret})

\* the bucket and the backing file of the class o and the results of its
\* queries are the same before and after the step
Untouched(o) ==
    /\ o \in DOMAIN DATA' <=> o \in DOMAIN DATA
    /\ o \in DOMAIN DATA =>
          /\ DOMAIN DATA'[o] = DOMAIN DATA[o]
          /\ \A k \in DOMAIN DATA[o] : heap'[DATA'[o][k]] = heap[DATA[o][k]]
    /\ o \in DOMAIN files' <=> o \in DOMAIN files
    /\ o \in DOMAIN files => files'[o] = files[o]
    /\ count(DATA', o) = count(DATA, o)
    /\ ShownAll(heap', all(DATA', heap', o)) = ShownAll(heap, all(DATA, heap, o))
    /\ \A id \in Ids \cup UuidPool :
          /\ ShownOne(heap', get(DATA', o, id)) = ShownOne(heap, get(DATA, o, id))
          /\ ShownAll(heap', search(DATA', heap', o, [id |-> id]))
                = ShownAll(heap, search(DATA, heap, o, [id |-> id]))

\* C19: a constructor call, a save, a remove and a load_from_file of one
\* class leave the bucket and the backing file of every other class as they
\* were, and count, get, search and all of the other class return after the
\* call what they returned before it.
C19_TypesAreIsolated ==
    [][last'.op \in {"construct", "save", "remove", "load_from_file"} =>
         \A o \in Types \ {last'.cls} : Untouched(o)]_vars

\* a save of an instance of one class while the other class has an instance
\* with the same id in its bucket and in its file
C19_Witness ==
    /\ last.op = "save"
    /\ \E o \in Types \ {last.cls} :
          /\ o \in DOMAIN DATA /\ last.arg.id \in DOMAIN DATA[o]
          /\ o \in DOMAIN files /\ last.arg.id \in DOMAIN files[o].doc
          /\ heap[DATA[o][last.arg.id]].d.updated_at
                = heap[DATA[last.cls][last.arg.id]].d.updated_at

====
